---- MODULE Spec2Model ----
(***************************************************************************)
(* Model of the sequence executor of the CERN Sequencer UI                 *)
(* (sequencer_ui/sequence_executor.py) together with the step/sequence     *)
(* data model and its validation (sequencer_ui/sequence_data_model.py).    *)
(*                                                                         *)
(* Two threads are modelled: the caller (GUI) thread, whose public calls   *)
(* execute_sequence / pause_execution / resume_execution / stop_execution  *)
(* are one action each, and the SequenceExecutionThread worker, which is   *)
(* cut at every point where it reads a flag the caller writes or writes    *)
(* the state the caller reads, and around the blocking client call.        *)
(***************************************************************************)
EXTENDS Integers, Sequences, FiniteSets, TLC

\* ------------------------------------------------------------------------
\* Bounds of the model
\* ------------------------------------------------------------------------
\* Longest sequence (number of steps) the caller hands to the executor.
MaxSteps == 2
\* The longest sequence handed to the validators called on their own
MaxTypedSteps == 1
\* How many direct calls of the validators a behaviour makes at most
MaxValidations == 2

\* ------------------------------------------------------------------------
\* Python values that occur as step parameters
\* ------------------------------------------------------------------------
Str(s) == [t |-> "str", s |-> s, n |-> 0]
Num(n) == [t |-> "num", s |-> "", n |-> n]
Bool(b) == [t |-> "bool", s |-> "", n |-> IF b THEN 1 ELSE 0]
NoneV == [t |-> "none", s |-> "", n |-> 0]

\* isinstance(v, str)
IsStr(v) == v.t = "str"
\* isinstance(v, (int, float)); bool is a subclass of int in Python
IsNumber(v) == v.t \in {"num", "bool"}
\* str.strip(): the strings of the model that consist of whitespace only
Blank == {"", " "}
Strip(s) == IF s \in Blank THEN "" ELSE s
\* str.lower() on the strings of the model
Lower(s) == CASE s = "INFO" -> "info"
              [] s = "ERROR" -> "error"
              [] OTHER -> s

\* dict.get(key, default)
Get(params, key, default) == IF key \in DOMAIN params THEN params[key] ELSE default

\* ------------------------------------------------------------------------
\* sequence_data_model.py
\* ------------------------------------------------------------------------
StepType == {"SetParameter", "WaitForEvent", "Delay", "RunDiagnostic", "LogMessage"}
StepStatus == {"pending", "running", "completed", "failed", "skipped"}

\* error_message of a step that has none (Python None)
NoMessage == "None"

\* (mutant) no parameter key is looked for
StepValidate_NoKeys(step) ==
  IF step.retry_count < 0
    THEN <<"Retry count must be a non-negative integer">> ELSE <<>>

\* SequenceStep.validate(): the list of errors (the step is valid iff it is empty)
StepValidate(step) ==
  LET p == step.parameters
      typeErrs ==
        CASE step.step_type = "SetParameter" ->
               (IF "name" \notin DOMAIN p
                  THEN <<"SetParameter step requires 'name' parameter">> ELSE <<>>)
               \o (IF "value" \notin DOMAIN p
                  THEN <<"SetParameter step requires 'value' parameter">> ELSE <<>>)
          [] step.step_type = "WaitForEvent" ->
               (IF "event_name" \notin DOMAIN p
                  THEN <<"WaitForEvent step requires 'event_name' parameter">> ELSE <<>>)
               \o (IF "timeout" \notin DOMAIN p
                  THEN <<"WaitForEvent step requires 'timeout' parameter">> ELSE <<>>)
          [] step.step_type = "Delay" ->
               IF "duration" \notin DOMAIN p
                 THEN <<"Delay step requires 'duration' parameter">>
               ELSE IF ~IsNumber(p["duration"])
                 THEN <<"Delay duration must be a number">>
               ELSE IF p["duration"].n <= 0
                 THEN <<"Delay duration must be positive">>
               ELSE <<>>
          [] step.step_type = "RunDiagnostic" ->
               IF "diagnostic_name" \notin DOMAIN p
                 THEN <<"RunDiagnostic step requires 'diagnostic_name' parameter">>
               ELSE <<>>
          [] step.step_type = "LogMessage" ->
               IF "message" \notin DOMAIN p
                 THEN <<"LogMessage step requires 'message' parameter">>
               ELSE <<>>
          [] OTHER -> <<>>
      timeoutErrs ==
        IF step.timeout # NoneV /\ (~IsNumber(step.timeout) \/ step.timeout.n <= 0)
          THEN <<"Timeout must be a positive number">> ELSE <<>>
      retryErrs ==
        IF step.retry_count < 0
          THEN <<"Retry count must be a non-negative integer">> ELSE <<>>
  IN typeErrs \o timeoutErrs \o retryErrs

\* The errors of the steps of a sequence, each with its 1-based position
\* ("Step i: <error>")
RECURSIVE StepErrors(_, _)
StepErrors(steps, i) ==
  IF i > Len(steps) THEN <<>>
  ELSE LET errs == StepValidate(steps[i])
       IN [k \in 1..Len(errs) |-> [pos |-> i, msg |-> errs[k]]]
          \o StepErrors(steps, i + 1)

\* SequenceData.validate(): the list of errors (pos 0: an error of the sequence)
SequenceValidate(seq) ==
  (IF Strip(seq.name) = ""
     THEN <<[pos |-> 0, msg |-> "Sequence name cannot be empty"]>> ELSE <<>>)
  \o StepErrors(seq.steps, 1)
  \o (IF Cardinality({seq.steps[i].step_id : i \in 1..Len(seq.steps)}) # Len(seq.steps)
        THEN <<[pos |-> 0, msg |-> "Duplicate step IDs found"]>> ELSE <<>>)

\* SequenceData.get_enabled_steps(), as the positions of the enabled steps
RECURSIVE EnabledFrom(_, _)
EnabledFrom(steps, i) ==
  IF i > Len(steps) THEN <<>>
  ELSE (IF steps[i].enabled THEN <<i>> ELSE <<>>) \o EnabledFrom(steps, i + 1)

\* (mutant) every step is taken, enabled or not
get_enabled_steps_All(seq) == [k \in 1..Len(seq.steps) |-> k]

\* SequenceData.get_enabled_steps()
get_enabled_steps(seq) == EnabledFrom(seq.steps, 1)

\* (mutant) the statuses are left as they are
reset_execution_status_KeepStatus(seq) ==
  [seq EXCEPT !.steps =
     [i \in 1..Len(seq.steps) |->
        [seq.steps[i] EXCEPT !.execution_time = FALSE,
                             !.error_message = NoMessage]]]

\* (mutant) the error messages are left as they are
reset_execution_status_KeepMessage(seq) ==
  [seq EXCEPT !.steps =
     [i \in 1..Len(seq.steps) |->
        [seq.steps[i] EXCEPT !.status = "pending",
                             !.execution_time = FALSE]]]

\* SequenceData.reset_execution_status()
reset_execution_status(seq) ==
  [seq EXCEPT !.steps =
     [i \in 1..Len(seq.steps) |->
        [seq.steps[i] EXCEPT !.status = "pending",
                             !.execution_time = FALSE,
                             !.error_message = NoMessage]]]

\* ------------------------------------------------------------------------
\* sequence_executor.py: step validators
\* ------------------------------------------------------------------------
\* Each validator yields [errors, raised]: the list of errors it returns, or
\* raised = TRUE when evaluating it raises a Python exception.
Result(errs) == [errors |-> errs, raised |-> FALSE]
Raised == [errors |-> <<>>, raised |-> TRUE]

\* `not isinstance(params.get(key), str) or not params[key].strip()`
NotNonEmptyString(params, key) ==
  LET v == Get(params, key, NoneV) IN ~IsStr(v) \/ Strip(v.s) = ""

_validate_set_parameter_step(step) ==
  Result((IF NotNonEmptyString(step.parameters, "name")
            THEN <<"Parameter name must be a non-empty string">> ELSE <<>>)
         \o (IF "value" \notin DOMAIN step.parameters
            THEN <<"Parameter value is required">> ELSE <<>>))

_validate_wait_for_event_step(step) ==
  LET timeout == Get(step.parameters, "timeout", Num(30)) IN
  Result((IF NotNonEmptyString(step.parameters, "event_name")
            THEN <<"Event name must be a non-empty string">> ELSE <<>>)
         \o (IF ~IsNumber(timeout) \/ timeout.n <= 0
            THEN <<"Timeout must be a positive number">> ELSE <<>>))

_validate_delay_step(step) ==
  LET duration  == Get(step.parameters, "duration", NoneV)
      precision == Get(step.parameters, "precision", Str("normal")) IN
  Result((IF ~IsNumber(duration) \/ duration.n <= 0
            THEN <<"Delay duration must be a positive number">> ELSE <<>>)
         \o (IF precision \notin {Str("high"), Str("normal"), Str("low")}
            THEN <<"Precision must be 'high', 'normal', or 'low'">> ELSE <<>>))

_validate_run_diagnostic_step(step) ==
  Result(IF NotNonEmptyString(step.parameters, "diagnostic_name")
           THEN <<"Diagnostic name must be a non-empty string">> ELSE <<>>)

valid_levels == {"debug", "info", "warning", "error", "critical"}

\* log_level.lower() raises AttributeError when log_level is not a string
_validate_log_message_step(step) ==
  LET log_level == Get(step.parameters, "log_level", Str("info")) IN
  IF ~IsStr(log_level) THEN Raised
  ELSE Result((IF NotNonEmptyString(step.parameters, "message")
                 THEN <<"Log message must be a non-empty string">> ELSE <<>>)
              \o (IF Lower(log_level.s) \notin valid_levels
                 THEN <<"Log level must be one of: debug, info, warning, error, critical">>
                 ELSE <<>>))

\* The dispatch table of _initialize_step_validators
step_validators(step) ==
  CASE step.step_type = "SetParameter"  -> _validate_set_parameter_step(step)
    [] step.step_type = "WaitForEvent"  -> _validate_wait_for_event_step(step)
    [] step.step_type = "Delay"         -> _validate_delay_step(step)
    [] step.step_type = "RunDiagnostic" -> _validate_run_diagnostic_step(step)
    [] step.step_type = "LogMessage"    -> _validate_log_message_step(step)

\* SequenceExecutor._validate_step: the built-in validation of the step, then
\* the validator of its type
_validate_step(step) ==
  LET own == StepValidate(step)
      typed == step_validators(step)
  IN IF typed.raised THEN Raised ELSE Result(own \o typed.errors)

\* (mutant) the errors of the validation are not looked at
IsValid_Always(res) == ~res.raised

\* is_valid = len(errors) == 0 (line 506)
IsValid(res) == ~res.raised /\ res.errors = <<>>

\* ------------------------------------------------------------------------
\* sequence_executor.py: dispatch to the control-system client
\* ------------------------------------------------------------------------
\* Python `a or b` on an optional number
OrElse(a, b) == IF a = NoneV \/ (IsNumber(a) /\ a.n = 0) THEN b ELSE a

\* The client method _execute_step_by_type calls for the step, with the
\* timeout it passes (NoneV for the methods that take none)
_execute_step_by_type(step, pos) ==
  CASE step.step_type = "SetParameter" ->
         [method |-> "set_parameter", pos |-> pos, timeout |-> step.timeout]
    [] step.step_type = "WaitForEvent" ->
         [method |-> "wait_for_event", pos |-> pos,
          timeout |-> Get(step.parameters, "timeout", OrElse(step.timeout, Num(30)))]
    [] step.step_type = "Delay" ->
         [method |-> "delay", pos |-> pos, timeout |-> NoneV]
    [] step.step_type = "RunDiagnostic" ->
         [method |-> "run_diagnostic", pos |-> pos,
          timeout |-> OrElse(step.timeout, Num(60))]
    [] step.step_type = "LogMessage" ->
         [method |-> "log_message", pos |-> pos, timeout |-> NoneV]

\* What a client call can do: return a result with one of the statuses of
\* ControlSystemStatus, return no result, or raise
ClientOutcomes == {"success", "warning", "failure", "timeout", "in_progress",
                   "no_result", "raise"}

\* ------------------------------------------------------------------------
\* The sequences the caller builds
\* ------------------------------------------------------------------------
Template(type, params) ==
  [step_type |-> type, parameters |-> params, timeout |-> NoneV, retry_count |-> 0]

\* create_set_parameter_step("X", 1): valid
SetX == Template("SetParameter", [name |-> Str("X"), value |-> Num(1)])
\* A log step with a blank message: SequenceStep.validate accepts it (the key
\* is there), the executor's validator for the type rejects it
LogBlank == Template("LogMessage", [message |-> Str(" ")])
\* A delay of -2.0: SequenceStep.validate rejects it
DelayNeg == Template("Delay", [duration |-> Num(-2)])
\* A log step whose log_level is a number: the executor's validator raises
LogLevelNum == Template("LogMessage", [message |-> Str("m"), log_level |-> Num(5)])

StepTemplates == {SetX, LogBlank, DelayNeg, LogLevelNum}

\* The parameter keys SequenceStep.validate looks for in a step of each type,
\* each with a value the validators accept
FullParameters(type) ==
  CASE type = "SetParameter"  -> [name |-> Str("X"), value |-> Num(1)]
    [] type = "WaitForEvent"  -> [event_name |-> Str("E"), timeout |-> Num(5)]
    [] type = "Delay"         -> [duration |-> Num(1)]
    [] type = "RunDiagnostic" -> [diagnostic_name |-> Str("D")]
    [] type = "LogMessage"    -> [message |-> Str("m")]

\* A step of every type with every subset of these parameters, and the
\* steps of StepTemplates
TypedTemplates ==
  UNION { { Template(type, [key \in keys |-> FullParameters(type)[key]]) :
              keys \in SUBSET DOMAIN FullParameters(type) } : type \in StepType }
  \cup StepTemplates

\* The step ids: unique, or some step repeats the id of the first one
IdChoices(n) == {f \in [1..n -> 1..n] : \A k \in 1..n : f[k] \in {1, k}}

\* The execution fields of a step as the caller hands it over: fresh, or left
\* behind by an earlier run (a sequence loaded from a file keeps them)
FreshFields == [status |-> "pending", execution_time |-> FALSE, error_message |-> NoMessage]
StaleFields == [status |-> "failed", execution_time |-> TRUE, error_message |-> "Earlier error"]

MakeStep(tpl, id, enabled, fields) ==
  [step_id |-> id, step_type |-> tpl.step_type, parameters |-> tpl.parameters,
   enabled |-> enabled, timeout |-> tpl.timeout, retry_count |-> tpl.retry_count,
   status |-> fields.status, execution_time |-> fields.execution_time,
   error_message |-> fields.error_message]

SequencesOver(templates, maxLen) ==
  UNION {
    { [name |-> name,
       steps |-> [k \in 1..n |-> MakeStep(tpls[k], ids[k], en[k], fields)]] :
        name \in {"Test Sequence", " "},
        tpls \in [1..n -> templates],
        ids \in IdChoices(n),
        en \in [1..n -> BOOLEAN],
        fields \in {FreshFields, StaleFields} }
    : n \in 0..maxLen }

\* ------------------------------------------------------------------------
\* State
\* ------------------------------------------------------------------------
VARIABLES
  sequence,              \* the caller's SequenceData object
  state,                 \* SequenceExecutor.state
  mode,                  \* SequenceExecutor.mode
  current_sequence,      \* "None", or "sequence": a reference to the object
  current_step_index,
  current_step,          \* 0 for None, else the position of the step
  stop_requested,
  pause_requested,
  continue_on_error,
  total_steps_executed,
  successful_steps,
  failed_steps,
  skipped_steps,
  execution_thread,      \* TRUE iff a SequenceExecutionThread object is held
  pc,                    \* where the worker thread stands
  i,                     \* the worker's loop variable, 1-based into enabled_steps
  events,                \* the signals emitted since the last call that found the executor idle
  calls,                 \* the client calls made since then
  attempts,              \* the steps attempted since then, each with how it ended
  last_return,           \* what the last execute_sequence call returned
  validation             \* what the direct calls of the validators returned, in order

exec_vars == <<state, mode, current_sequence, current_step_index, current_step,
               stop_requested, pause_requested, continue_on_error,
               total_steps_executed, successful_steps, failed_steps, skipped_steps,
               execution_thread>>
worker_vars == <<pc, i>>
history_vars == <<events, calls, attempts, last_return>>
vars == <<sequence, exec_vars, worker_vars, history_vars, validation>>

ExecutionState == {"idle", "running", "paused", "stopping", "stopped", "completed", "failed"}
ExecutionMode == {"normal", "step_by_step", "dry_run"}

\* A signal: its name, the step id (0 when it has none), its integer argument
\* (step index or progress position) and its boolean argument (success)
Ev(name, step, n, ok) == [ev |-> name, step |-> step, n |-> n, ok |-> ok]
Lifecycle(name) == Ev(name, 0, 0, TRUE)

\* SequenceExecutor.__init__
InitExecutor ==
  /\ state = "idle"
  /\ mode = "normal"
  /\ current_sequence = "None"
  /\ current_step_index = 0
  /\ current_step = 0
  /\ stop_requested = FALSE
  /\ pause_requested = FALSE
  /\ continue_on_error = FALSE
  /\ total_steps_executed = 0
  /\ successful_steps = 0
  /\ failed_steps = 0
  /\ skipped_steps = 0
  /\ execution_thread = FALSE
  /\ pc = "none"
  /\ i = 0
  /\ events = <<>>
  /\ calls = <<>>
  /\ attempts = <<>>
  /\ last_return = "none"
  /\ validation = <<>>

Init ==
  /\ sequence \in SequencesOver(StepTemplates, MaxSteps)
  /\ InitExecutor

\* ------------------------------------------------------------------------
\* The caller's thread: execute_sequence
\* ------------------------------------------------------------------------
\* (mutant) a finished run does not block the next one
CanStart_AlsoTerminal(st) == st \in {"idle", "completed", "failed"}

\* (mutant) a run may also be started while one is running
CanStart_WhileRunning(st) == st \in {"idle", "running"}

\* Line 140: a run may start only from Idle
CanStart(st) == st = "idle"

\* (mutant) only the name of the sequence is checked
SequenceIsValid_NameOnly(seq) == Strip(seq.name) # ""

\* Lines 145-146: is_valid of sequence.validate()
SequenceIsValid(seq) == SequenceValidate(seq) = <<>>

\* (mutant) a dry run is handed to the worker like any other run
IsDryRun_Never(m) == FALSE

\* Line 165: dry runs are executed in the call itself
IsDryRun(m) == m = "dry_run"

\* _execute_dry_run: the signals it emits and the value it returns, from the
\* k-th enabled step on
RECURSIVE DryRunFrom(_, _, _, _, _)
DryRunFrom(seq, enabled, k, coe, evs) ==
  IF k > Len(enabled)
    THEN [events |-> evs \o <<Ev("execution_completed", 0, 0, TRUE)>>, ret |-> "true"]
  ELSE
    LET step == seq.steps[enabled[k]]
        res  == _validate_step(step)
        failedEv == Ev("step_failed", step.step_id, 0, FALSE)
        progress == Ev("progress_updated", 0, k, TRUE)
    IN IF res.raised
         THEN [events |-> evs \o <<Lifecycle("execution_failed")>>, ret |-> "false"]
       ELSE IF ~IsValid(res) /\ ~coe
         THEN [events |-> evs \o <<failedEv, Lifecycle("execution_failed")>>, ret |-> "false"]
       ELSE IF ~IsValid(res)
         THEN DryRunFrom(seq, enabled, k + 1, coe, evs \o <<failedEv, progress>>)
       ELSE DryRunFrom(seq, enabled, k + 1, coe, evs \o <<progress>>)

_execute_dry_run(seq, coe) ==
  DryRunFrom(seq, get_enabled_steps(seq), 1, coe, <<Lifecycle("execution_started")>>)

\* SequenceExecutor.execute_sequence(sequence, mode, continue_on_error)
execute_sequence(m, coe) ==
  /\ UNCHANGED validation
  /\ IF ~CanStart(state) THEN
       /\ last_return' = "false"
       /\ UNCHANGED <<sequence, exec_vars, worker_vars, events, calls, attempts>>
     ELSE IF ~SequenceIsValid(sequence) THEN
       /\ events' = <<Lifecycle("execution_failed")>>
       /\ calls' = <<>>
       /\ attempts' = <<>>
       /\ last_return' = "false"
       /\ UNCHANGED <<sequence, exec_vars, worker_vars>>
     ELSE
       \* _reset_execution_state, then the setup of the run
       /\ current_step_index' = 0
       /\ current_step' = 0
       /\ stop_requested' = FALSE
       /\ pause_requested' = FALSE
       /\ total_steps_executed' = 0
       /\ successful_steps' = 0
       /\ failed_steps' = 0
       /\ skipped_steps' = 0
       /\ current_sequence' = "sequence"
       /\ mode' = m
       /\ continue_on_error' = coe
       /\ sequence' = reset_execution_status(sequence)
       /\ calls' = <<>>
       /\ attempts' = <<>>
       /\ i' = 0
       /\ IF IsDryRun(m)
            THEN LET r == _execute_dry_run(sequence', coe) IN
                 /\ state' = "idle"
                 /\ events' = r.events
                 /\ last_return' = r.ret
                 /\ UNCHANGED <<execution_thread, pc>>
            ELSE /\ state' = "running"
                 /\ execution_thread' = TRUE
                 /\ pc' = "start"
                 /\ events' = <<>>
                 /\ last_return' = "true"

\* ------------------------------------------------------------------------
\* The caller's thread: pause, resume, stop
\* ------------------------------------------------------------------------
pause_execution ==
  /\ pause_requested' = IF state = "running" THEN TRUE ELSE pause_requested
  /\ UNCHANGED last_return
  /\ UNCHANGED <<sequence, state, mode, current_sequence, current_step_index,
                 current_step, stop_requested, continue_on_error,
                 total_steps_executed, successful_steps, failed_steps,
                 skipped_steps, execution_thread, worker_vars,
                 events, calls, attempts>>
  /\ UNCHANGED validation

\* (mutant) the pause flag is cleared whatever the state is
resume_execution_Unguarded ==
  /\ pause_requested' = FALSE
  /\ UNCHANGED <<sequence, state, mode, current_sequence, current_step_index,
                 current_step, stop_requested, continue_on_error,
                 total_steps_executed, successful_steps, failed_steps,
                 skipped_steps, execution_thread, worker_vars,
                 history_vars, validation>>

\* SequenceExecutor.resume_execution()
resume_execution ==
  /\ pause_requested' = IF state = "paused" THEN FALSE ELSE pause_requested
  /\ UNCHANGED last_return
  /\ UNCHANGED <<sequence, state, mode, current_sequence, current_step_index,
                 current_step, stop_requested, continue_on_error,
                 total_steps_executed, successful_steps, failed_steps,
                 skipped_steps, execution_thread, worker_vars,
                 events, calls, attempts>>
  /\ UNCHANGED validation

\* (mutant) the stop flag is set whatever the state is
stop_execution_Unguarded ==
  /\ stop_requested' = TRUE
  /\ UNCHANGED <<sequence, state, mode, current_sequence, current_step_index,
                 current_step, pause_requested, continue_on_error,
                 total_steps_executed, successful_steps, failed_steps,
                 skipped_steps, execution_thread, worker_vars,
                 history_vars, validation>>

\* SequenceExecutor.stop_execution()
stop_execution ==
  /\ stop_requested' = IF state \in {"running", "paused"} THEN TRUE ELSE stop_requested
  /\ UNCHANGED last_return
  /\ UNCHANGED <<sequence, state, mode, current_sequence, current_step_index,
                 current_step, pause_requested, continue_on_error,
                 total_steps_executed, successful_steps, failed_steps,
                 skipped_steps, execution_thread, worker_vars,
                 events, calls, attempts>>
  /\ UNCHANGED validation

\* _on_execution_thread_finished, the slot of the thread's finished signal
_on_execution_thread_finished ==
  /\ pc = "finished"
  /\ execution_thread
  /\ execution_thread' = FALSE
  /\ pc' = "none"
  /\ UNCHANGED last_return
  /\ UNCHANGED <<sequence, state, mode, current_sequence, current_step_index,
                 current_step, stop_requested, pause_requested, continue_on_error,
                 total_steps_executed, successful_steps, failed_steps,
                 skipped_steps, i, events, calls, attempts>>
  /\ UNCHANGED validation

\* ------------------------------------------------------------------------
\* The worker thread: SequenceExecutionThread.run -> _execute_sequence_steps
\* ------------------------------------------------------------------------
\* The worker's local enabled_steps and total_steps
\* (mutant) the worker walks the enabled steps from the last to the first
enabled_steps_Reversed ==
  LET s == get_enabled_steps(sequence) IN [k \in 1..Len(s) |-> s[Len(s) + 1 - k]]

enabled_steps == get_enabled_steps(sequence)
total_steps == Len(enabled_steps)

SetStep(seq, pos, status, time, msg) ==
  [seq EXCEPT !.steps[pos] = [@ EXCEPT !.status = status,
                                       !.execution_time = time,
                                       !.error_message = msg]]

\* Line 241 and line 256: the stop flag as the worker reads it
StopObserved(flag) == flag
\* (mutant) the pause flag is not looked at
PauseObserved_Never(flag) == FALSE

\* Line 246: the pause flag as the worker reads it at the top of an iteration
PauseObserved(flag) == flag
\* (mutant) the worker does not wait while the pause flag is set
KeepWaiting_Never(pause, stop) == FALSE

\* (mutant) only a stop ends the wait loop
KeepWaiting_UntilStop(pause, stop) == ~stop

\* (mutant) the wait loop does not look at the stop flag
KeepWaiting_IgnoreStop(pause, stop) == pause

\* Line 252: the condition of the pause wait loop
KeepWaiting(pause, stop) == pause /\ ~stop
\* (mutant) a failed step never ends the run
AbortAfter_Never(success, coe) == FALSE
\* (mutant) a failed step ends the run whatever continue_on_error says
AbortAfter_Always(success, coe) == ~success

\* Line 270: the run is abandoned after a failed step
AbortAfter(success, coe) == ~success /\ ~coe
\* (mutant) a timeout counts as success
StepSucceeded_AlsoTimeout(outcome) == outcome \in {"success", "warning", "timeout"}

\* (mutant) a warning is handled as a failure
StepSucceeded_OnlySuccess(outcome) == outcome = "success"

\* Lines 347 and 357: the result counts as a success
StepSucceeded(outcome) == outcome \in {"success", "warning"}
\* (mutant) a finished run leaves the executor idle
FinalState_Idle(failed) == "idle"

\* (mutant) the failure counter is not consulted
FinalState_AlwaysCompleted(failed) == "completed"

\* Line 298: the state the worker leaves behind
FinalState(failed) == IF failed = 0 THEN "completed" ELSE "failed"

\* (mutant) the return after execution_failed (line 274) is missing
Continue_AbortGoesOn(success, evs) ==
  LET out == IF AbortAfter(success, continue_on_error)
               THEN evs \o <<Lifecycle("execution_failed")>> ELSE evs
  IN IF i < total_steps
       THEN [pc |-> "check_stop", i |-> i + 1, events |-> out]
     ELSE [pc |-> "finally", i |-> i,
           events |-> out \o <<Ev("execution_completed", 0, 0, TRUE)>>]

\* Lines 270-291: what follows _execute_step in the loop body: abandon the
\* run, go to the next enabled step, or fall out of the loop
Continue(success, evs) ==
  IF AbortAfter(success, continue_on_error)
    THEN [pc |-> "finally", i |-> i, events |-> evs \o <<Lifecycle("execution_failed")>>]
  ELSE IF i < total_steps
    THEN [pc |-> "check_stop", i |-> i + 1, events |-> evs]
  ELSE [pc |-> "finally", i |-> i,
        events |-> evs \o <<Ev("execution_completed", 0, 0, TRUE)>>]

\* Lines 223-236
WorkerStart ==
  /\ pc = "start"
  /\ IF total_steps = 0
       THEN /\ events' = events \o <<Lifecycle("execution_started"),
                                     Ev("execution_completed", 0, 0, TRUE)>>
            /\ pc' = "finally"
            /\ i' = 0
       ELSE /\ events' = Append(events, Lifecycle("execution_started"))
            /\ pc' = "check_stop"
            /\ i' = 1
  /\ UNCHANGED <<sequence, exec_vars, calls, attempts, last_return>>
  /\ UNCHANGED validation

\* (mutant) the return after execution_stopped is missing
CheckStop_NoReturn ==
  /\ pc = "check_stop"
  /\ events' = IF StopObserved(stop_requested)
                 THEN Append(events, Lifecycle("execution_stopped")) ELSE events
  /\ pc' = "check_pause"
  /\ UNCHANGED <<sequence, exec_vars, i, calls, attempts, last_return>>
  /\ UNCHANGED validation

\* Lines 241-244
CheckStop ==
  /\ pc = "check_stop"
  /\ IF StopObserved(stop_requested)
       THEN /\ events' = Append(events, Lifecycle("execution_stopped"))
            /\ pc' = "finally"
       ELSE /\ pc' = "check_pause"
            /\ UNCHANGED events
  /\ UNCHANGED <<sequence, exec_vars, i, calls, attempts, last_return>>
  /\ UNCHANGED validation

\* Lines 246-249
CheckPause ==
  /\ pc = "check_pause"
  /\ IF PauseObserved(pause_requested)
       THEN /\ state' = "paused"
            /\ events' = Append(events, Lifecycle("execution_paused"))
            /\ pc' = "pause_wait"
       ELSE /\ pc' = "execute"
            /\ UNCHANGED <<state, events>>
  /\ UNCHANGED <<sequence, mode, current_sequence, current_step_index, current_step,
                 stop_requested, pause_requested, continue_on_error,
                 total_steps_executed, successful_steps, failed_steps, skipped_steps,
                 execution_thread, i, calls, attempts, last_return>>
  /\ UNCHANGED validation

\* Lines 252-254: the worker leaves the wait loop (while the condition holds
\* it only sleeps)
PauseWait ==
  /\ pc = "pause_wait"
  /\ ~KeepWaiting(pause_requested, stop_requested)
  /\ pc' = "after_wait"
  /\ UNCHANGED <<sequence, exec_vars, i, history_vars>>
  /\ UNCHANGED validation

\* (mutant) the worker goes on after the wait without the lines 261-262
AfterWait_NoResume ==
  /\ pc = "after_wait"
  /\ IF StopObserved(stop_requested)
       THEN /\ events' = Append(events, Lifecycle("execution_stopped"))
            /\ pc' = "finally"
       ELSE /\ pc' = "execute"
            /\ UNCHANGED events
  /\ UNCHANGED <<sequence, exec_vars, i, calls, attempts, last_return>>
  /\ UNCHANGED validation

\* Lines 256-263
AfterWait ==
  /\ pc = "after_wait"
  /\ IF StopObserved(stop_requested)
       THEN /\ events' = Append(events, Lifecycle("execution_stopped"))
            /\ pc' = "finally"
            /\ UNCHANGED state
       ELSE /\ state' = "running"
            /\ events' = Append(events, Lifecycle("execution_resumed"))
            /\ pc' = "execute"
  /\ UNCHANGED <<sequence, mode, current_sequence, current_step_index, current_step,
                 stop_requested, pause_requested, continue_on_error,
                 total_steps_executed, successful_steps, failed_steps, skipped_steps,
                 execution_thread, i, calls, attempts, last_return>>
  /\ UNCHANGED validation

\* Lines 266-268 and _execute_step up to the client call (lines 312-341):
\* the step is marked running, step_started is emitted, the step is
\* validated and, if valid, handed to the client
StepBegin ==
  /\ pc = "execute"
  /\ LET pos  == enabled_steps[i]
         step == sequence.steps[pos]
         res  == _validate_step(step)
         started == Append(events, Ev("step_started", step.step_id, i - 1, TRUE))
         failedEv == Ev("step_failed", step.step_id, 0, FALSE)
     IN
     /\ current_step_index' = i - 1
     /\ current_step' = pos
     /\ IF res.raised THEN
          \* lines 391-400: the handler of unexpected exceptions
          LET next == Continue(FALSE, Append(started, failedEv)) IN
          /\ sequence' = SetStep(sequence, pos, "failed", TRUE,
                                 "Unexpected error executing step")
          /\ failed_steps' = failed_steps + 1
          /\ attempts' = Append(attempts, [pos |-> pos, outcome |-> "validator_raised"])
          /\ events' = next.events
          /\ pc' = next.pc
          /\ i' = next.i
          /\ UNCHANGED calls
        ELSE IF ~IsValid(res) THEN
          \* lines 332-338
          LET next == Continue(FALSE, Append(started, failedEv)) IN
          /\ sequence' = SetStep(sequence, pos, "failed", step.execution_time,
                                 "Step validation failed")
          /\ failed_steps' = failed_steps + 1
          /\ attempts' = Append(attempts, [pos |-> pos, outcome |-> "invalid"])
          /\ events' = next.events
          /\ pc' = next.pc
          /\ i' = next.i
          /\ UNCHANGED calls
        ELSE
          /\ sequence' = SetStep(sequence, pos, "running", step.execution_time,
                                 step.error_message)
          /\ calls' = Append(calls, _execute_step_by_type(step, pos))
          /\ events' = started
          /\ pc' = "in_call"
          /\ UNCHANGED <<failed_steps, i, attempts>>
  /\ UNCHANGED <<state, mode, current_sequence, stop_requested, pause_requested,
                 continue_on_error, total_steps_executed, successful_steps,
                 skipped_steps, execution_thread, last_return>>
  /\ UNCHANGED validation

\* The message of a failed step (lines 372 and 431)
FailureMessage(outcome) ==
  CASE outcome = "no_result" -> "No result returned"
    [] outcome = "raise" -> "Exception executing step"
    [] OTHER -> "Client message"

\* (mutant) the step with the client is given up and the run stopped
ClientReturn_Abandon(outcome) ==
  /\ pc = "in_call"
  /\ events' = Append(events, Lifecycle("execution_stopped"))
  /\ pc' = "finally"
  /\ UNCHANGED <<sequence, exec_vars, i, calls, attempts, last_return, validation>>

\* The client call returns (or raises) and _execute_step handles the result
\* (lines 343-389), then the loop body goes on (lines 270-291)
ClientReturn(outcome) ==
  /\ pc = "in_call"
  /\ LET pos  == enabled_steps[i]
         step == sequence.steps[pos]
         ok   == StepSucceeded(outcome)
         stepEvs ==
           IF outcome = "success"
             THEN <<Ev("step_completed", step.step_id, 0, TRUE)>>
           ELSE IF outcome = "warning"
             THEN <<Ev("status_message", 0, 0, TRUE),
                    Ev("step_completed", step.step_id, 0, TRUE)>>
           ELSE <<Ev("step_failed", step.step_id, 0, FALSE)>>
         next == Continue(ok, events \o stepEvs
                               \o <<Ev("progress_updated", 0, i, TRUE)>>)
     IN
     /\ sequence' = IF ok
                      THEN SetStep(sequence, pos, "completed", TRUE, step.error_message)
                      ELSE SetStep(sequence, pos, "failed", TRUE, FailureMessage(outcome))
     /\ successful_steps' = IF ok THEN successful_steps + 1 ELSE successful_steps
     /\ failed_steps' = IF ok THEN failed_steps ELSE failed_steps + 1
     /\ total_steps_executed' = total_steps_executed + 1
     /\ attempts' = Append(attempts, [pos |-> pos, outcome |-> outcome])
     /\ events' = next.events
     /\ pc' = next.pc
     /\ i' = next.i
  /\ UNCHANGED <<state, mode, current_sequence, current_step_index, current_step,
                 stop_requested, pause_requested, continue_on_error, skipped_steps,
                 execution_thread, calls, last_return>>
  /\ UNCHANGED validation

\* Line 298, the finally clause of _execute_sequence_steps, then the finally
\* clause of SequenceExecutionThread.run (lines 682-685); the thread ends
WorkerFinally ==
  /\ pc = "finally"
  /\ LET st == FinalState(failed_steps) IN
     state' = IF st = "running" THEN "completed" ELSE st
  /\ pc' = "finished"
  /\ UNCHANGED <<sequence, mode, current_sequence, current_step_index, current_step,
                 stop_requested, pause_requested, continue_on_error,
                 total_steps_executed, successful_steps, failed_steps, skipped_steps,
                 execution_thread, i, history_vars>>
  /\ UNCHANGED validation

\* Lines 293-296: a statement of the loop body outside _execute_step (a
\* signal emission, processEvents or sleep of the pause wait) raises; the
\* except clause of _execute_sequence_steps emits execution_failed and the
\* finally clause follows
LoopException ==
  /\ pc \in {"check_stop", "check_pause", "pause_wait", "after_wait"}
  /\ events' = Append(events, Lifecycle("execution_failed"))
  /\ attempts' = Append(attempts, [pos |-> 0, outcome |-> "loop_exception"])
  /\ pc' = "finally"
  /\ UNCHANGED <<sequence, exec_vars, i, calls, last_return>>
  /\ UNCHANGED validation

\* ------------------------------------------------------------------------
\* The validators called on their own (by an editor, a test, the caller)
\* ------------------------------------------------------------------------
\* What a call returned: (is_valid, errors), or that it raised
Returned(call, pos, errs) ==
  [call |-> call, pos |-> pos, ok |-> errs = <<>>, errors |-> errs, raised |-> FALSE]

\* step.validate() on the step at position k
step_validate(k) ==
  /\ Len(validation) < MaxValidations
  /\ validation' = Append(validation, Returned("step", k, StepValidate(sequence.steps[k])))
  /\ UNCHANGED <<sequence, exec_vars, worker_vars, history_vars>>

\* (mutant) the validation marks the steps it finds errors in as failed
sequence_validate_Marking ==
  /\ Len(validation) < MaxValidations
  /\ validation' = Append(validation, Returned("sequence", 0, SequenceValidate(sequence)))
  /\ sequence' = [sequence EXCEPT !.steps =
                    [k \in 1..Len(sequence.steps) |->
                       IF StepValidate(sequence.steps[k]) = <<>> THEN sequence.steps[k]
                       ELSE [sequence.steps[k] EXCEPT !.status = "failed"]]]
  /\ UNCHANGED <<exec_vars, worker_vars, history_vars>>

\* sequence.validate()
sequence_validate ==
  /\ Len(validation) < MaxValidations
  /\ validation' = Append(validation, Returned("sequence", 0, SequenceValidate(sequence)))
  /\ UNCHANGED <<sequence, exec_vars, worker_vars, history_vars>>

\* executor._validate_step(step) on the step at position k
executor_validate_step(k) ==
  /\ Len(validation) < MaxValidations
  /\ LET res == _validate_step(sequence.steps[k]) IN
     validation' = Append(validation,
                     IF res.raised
                       THEN [call |-> "executor", pos |-> k, ok |-> FALSE,
                             errors |-> <<>>, raised |-> TRUE]
                       ELSE Returned("executor", k, res.errors))
  /\ UNCHANGED <<sequence, exec_vars, worker_vars, history_vars>>

\* ------------------------------------------------------------------------
\* Specification
\* ------------------------------------------------------------------------
CallerStep ==
  \/ \E m \in ExecutionMode, coe \in BOOLEAN : execute_sequence(m, coe)
  \/ pause_execution
  \/ resume_execution
  \/ stop_execution
  \/ _on_execution_thread_finished

WorkerStep ==
  \/ WorkerStart
  \/ CheckStop
  \/ CheckPause
  \/ PauseWait
  \/ AfterWait
  \/ StepBegin
  \/ \E outcome \in ClientOutcomes : ClientReturn(outcome)
  \/ WorkerFinally

Next == CallerStep \/ WorkerStep

Spec == Init /\ [][Next]_vars

\* The worker thread is scheduled: a step it can take it eventually takes
\* (the client call returns or raises, the sleeps of the pause wait end)
FairWorker == Spec /\ WF_vars(WorkerStep)

\* The worker is scheduled and a run parked in the pause wait is eventually
\* resumed by the caller, unless it is stopped
FairRun == FairWorker /\ WF_vars(resume_execution)

\* The executor with a worker whose loop body may raise
NextExc == Next \/ LoopException

SpecExc == Init /\ [][NextExc]_vars

\* The validators alone, on sequences with steps of every type
InitValidation ==
  /\ sequence \in SequencesOver(TypedTemplates, MaxTypedSteps)
  /\ InitExecutor

NextValidation ==
  \/ sequence_validate
  \/ \E k \in 1..Len(sequence.steps) : step_validate(k)
  \/ \E k \in 1..Len(sequence.steps) : executor_validate_step(k)

SpecValidation == InitValidation /\ [][NextValidation]_vars

\* The executor on sequences with steps of every type
SpecTyped == InitValidation /\ [][Next]_vars

TypeOK ==
  /\ state \in ExecutionState
  /\ mode \in ExecutionMode
  /\ pc \in {"none", "start", "check_stop", "check_pause", "pause_wait",
             "after_wait", "execute", "in_call", "finally", "finished"}
  /\ \A k \in 1..Len(sequence.steps) : sequence.steps[k].status \in StepStatus

\* ------------------------------------------------------------------------
\* Properties
\* ------------------------------------------------------------------------
HasEvent(name) == \E k \in 1..Len(events) : events[k].ev = name
LastEvent == IF events = <<>> THEN "none" ELSE events[Len(events)].ev
\* How many step_started signals carry the id of the step at position pos
StartedCount(pos) ==
  Cardinality({k \in 1..Len(events) :
                 /\ events[k].ev = "step_started"
                 /\ events[k].step = sequence.steps[pos].step_id})
CallCount(pos) == Cardinality({k \in 1..Len(calls) : calls[k].pos = pos})
Positions == 1..Len(sequence.steps)
EnabledPositions == {p \in Positions : sequence.steps[p].enabled}
\* A threaded (Normal or StepByStep) run has been started on the sequence
ThreadedRun == current_sequence = "sequence" /\ mode # "dry_run" /\ state # "idle"
\* The worker of the run has left _execute_sequence_steps
WorkerDone == ThreadedRun /\ pc \in {"finished", "none"}

\* C1: execute_sequence called while the state is not Idle returns false and
\* changes nothing: state, flags, counters, current sequence, step statuses
\* and worker are what they were, and nothing is emitted or called.
C1_NotIdleStartRejected ==
  [][\A m \in ExecutionMode, coe \in BOOLEAN :
       (state # "idle" /\ execute_sequence(m, coe)) =>
         /\ last_return' = "false"
         /\ UNCHANGED <<sequence, exec_vars, worker_vars, events, calls, attempts>>]_vars

\* A call was rejected while a run was in progress
C1_Witness == state = "running" /\ pc = "in_call" /\ last_return = "false"

\* The sequence fails whole-sequence validation, as the claim C2 lists it:
\* empty name, an invalid step, or duplicate step ids
InvalidSequence(seq) ==
  \/ Strip(seq.name) = ""
  \/ \E k \in 1..Len(seq.steps) : StepValidate(seq.steps[k]) # <<>>
  \/ \E k, l \in 1..Len(seq.steps) : k # l /\ seq.steps[k].step_id = seq.steps[l].step_id

\* C2: execute_sequence on a sequence that fails whole-sequence validation
\* returns false in the call, starts no run (no worker, no execution_started,
\* no step started, no client call) and leaves the state Idle and every step
\* as it was.
C2_InvalidSequenceRejected ==
  [][\A m \in ExecutionMode, coe \in BOOLEAN :
       (state = "idle" /\ InvalidSequence(sequence) /\ execute_sequence(m, coe)) =>
         /\ last_return' = "false"
         /\ state' = "idle"
         /\ sequence' = sequence
         /\ UNCHANGED <<execution_thread, pc>>
         /\ calls' = <<>>
         /\ \A k \in 1..Len(events') :
              events'[k].ev \notin {"execution_started", "step_started"}]_vars

\* An invalid sequence whose steps carry the statuses of an earlier run was
\* handed over and rejected
C2_Witness ==
  /\ InvalidSequence(sequence)
  /\ last_return = "false"
  /\ state = "idle"
  /\ events = <<Lifecycle("execution_failed")>>
  /\ \E p \in Positions : sequence.steps[p].status = "failed"

\* C3: in DryRun mode no method of the control-system client is invoked,
\* whatever the sequence and the value of continue_on_error.
C3_DryRunMakesNoClientCall ==
  mode = "dry_run" => (calls = <<>> /\ pc = "none" /\ ~execution_thread)

\* A dry run over at least one enabled step went through
C3_Witness ==
  /\ mode = "dry_run"
  /\ last_return = "true"
  /\ continue_on_error
  /\ HasEvent("progress_updated")
  /\ HasEvent("step_failed")

\* C4: with continue_on_error = false, once an enabled step has failed
\* (validation, client result or exception) every later enabled step keeps
\* status Pending, has no step_started, and the run ends with
\* execution_failed.
C4_AbortOnFirstFailure ==
  (ThreadedRun /\ ~continue_on_error) =>
    \A k \in EnabledPositions :
      sequence.steps[k].status = "failed" =>
        /\ \A q \in EnabledPositions :
             q > k => (sequence.steps[q].status = "pending" /\ StartedCount(q) = 0)
        /\ pc \in {"finally", "finished", "none"}
        /\ LastEvent = "execution_failed"

\* The first of two enabled steps failed in its client call and the worker
\* has ended
C4_Witness ==
  /\ WorkerDone
  /\ ~continue_on_error
  /\ \E k, q \in EnabledPositions :
       /\ k < q
       /\ sequence.steps[k].status = "failed"
       /\ sequence.steps[q].status = "pending"
  /\ \E a \in 1..Len(attempts) : attempts[a].outcome = "raise"

\* C5: with continue_on_error = true and no stop request, every enabled step
\* has been attempted when the worker ends: it got one step_started and is
\* Completed or Failed, however many earlier steps failed.
C5_AllStepsAttempted ==
  (ThreadedRun /\ pc \in {"finally", "finished", "none"}
     /\ continue_on_error /\ ~stop_requested) =>
    \A k \in EnabledPositions :
      /\ sequence.steps[k].status \in {"completed", "failed"}
      /\ StartedCount(k) = 1

\* A step was completed after an earlier one had failed
C5_Witness ==
  /\ WorkerDone
  /\ continue_on_error
  /\ ~stop_requested
  /\ \E k, q \in EnabledPositions :
       /\ k < q
       /\ sequence.steps[k].status = "failed"
       /\ sequence.steps[q].status = "completed"

\* The attempts that ended as the set of outcomes says
CountAttempts(outcomes) ==
  Cardinality({a \in 1..Len(attempts) : attempts[a].outcome \in outcomes})

\* C6 as stated: with continue_on_error = true, when the run ends
\* failed_steps is the number of steps whose client call returned FAILURE or
\* TIMEOUT or raised.
C6_FailedCountsClientFailures ==
  (WorkerDone /\ continue_on_error) =>
    failed_steps = CountAttempts({"failure", "timeout", "raise"})

\* C6 as amended: with continue_on_error = true, when the run ends
\* failed_steps is the number of attempted steps that did not end with
\* SUCCESS or WARNING: the client call returned another status or no result
\* or raised, or the step failed its validation at execution time.
C6_FailedCountsFailedAttempts ==
  (WorkerDone /\ continue_on_error) =>
    failed_steps = CountAttempts({"failure", "timeout", "in_progress", "no_result",
                                  "raise", "invalid", "validator_raised"})

\* A run in which one step failed its validation and one failed in the client
C6_Witness ==
  /\ WorkerDone
  /\ continue_on_error
  /\ failed_steps = 2
  /\ CountAttempts({"invalid"}) = 1
  /\ CountAttempts({"timeout"}) = 1

\* C7: when the run completes naturally (the worker went through the last
\* enabled step and emitted execution_completed), the state becomes
\* Completed if failed_steps = 0 and Failed otherwise.
C7_NaturalCompletionState ==
  (WorkerDone /\ LastEvent = "execution_completed") =>
    state = IF failed_steps = 0 THEN "completed" ELSE "failed"

\* A run with continue_on_error went through all its steps, one of which failed
C7_Witness ==
  /\ WorkerDone
  /\ LastEvent = "execution_completed"
  /\ failed_steps > 0
  /\ successful_steps > 0
  /\ state = "failed"

\* C8: when the worker has observed the stop flag (it emitted
\* execution_stopped) and has ended, the state is Stopped.
C8_StopLeadsToStopped ==
  (WorkerDone /\ HasEvent("execution_stopped")) => state = "stopped"

\* The worker has observed the stop flag
StopSeen == ThreadedRun /\ HasEvent("execution_stopped")

\* C9: once the worker has observed the stop flag no further step is
\* started: every enabled step that was not started is Pending and has no
\* client call, and from then on nothing is emitted, no step changes and no
\* client call is made.
C9_NoStepAfterStopObserved ==
  [][StopSeen =>
       /\ \A p \in EnabledPositions :
            StartedCount(p) = 0 =>
              (sequence.steps[p].status = "pending" /\ CallCount(p) = 0)
       /\ sequence' = sequence
       /\ calls' = calls
       /\ events' = events]_vars

\* The run was stopped between its two steps
C9_Witness ==
  /\ StopSeen
  /\ WorkerDone
  /\ \E k, q \in EnabledPositions :
       /\ sequence.steps[k].status = "completed"
       /\ sequence.steps[q].status = "pending"
       /\ StartedCount(q) = 0

\* C10: while the state is Paused no step_started is emitted, no step
\* changes and no client call is made; the worker goes back to Running only
\* when the pause flag has been cleared.
C10_NoProgressWhilePaused ==
  [][state = "paused" =>
       /\ sequence' = sequence
       /\ calls' = calls
       /\ \A k \in (Len(events) + 1)..Len(events') : events'[k].ev # "step_started"
       /\ (state' = "running" => ~pause_requested)]_vars

\* The worker is parked in the pause wait, before a step that is still Pending
C10_Witness ==
  /\ state = "paused"
  /\ pc = "pause_wait"
  /\ pause_requested
  /\ ~stop_requested
  /\ i = 2
  /\ sequence.steps[enabled_steps[i]].status = "pending"

\* C11 as stated: a pause requested while Running, with no stop request, is
\* always honoured, so the worker never ends with the pause flag still set.
C11_PauseAlwaysHonoured ==
  (WorkerDone /\ ~stop_requested) => ~pause_requested

\* C11 as amended: a pause requested while Running, with no stop request, is
\* honoured when the worker comes to the check before an enabled step: the
\* state becomes Paused and execution_paused is emitted.
C11_PauseHonouredAtNextCheck ==
  (state = "running" /\ pause_requested /\ ~stop_requested
     /\ pc \in {"check_stop", "check_pause"})
  ~> ((state = "paused" /\ LastEvent = "execution_paused") \/ stop_requested)

\* The pause was requested while the first step was in flight and the worker
\* parked before the second
C11_Witness ==
  /\ state = "paused"
  /\ LastEvent = "execution_paused"
  /\ pc = "pause_wait"
  /\ i = 2
  /\ ~stop_requested

\* The step_started signals of the k-th enabled step (index k - 1)
StartsOf(k) ==
  {e \in 1..Len(events) : events[e].ev = "step_started" /\ events[e].n = k - 1}

\* The worker is parked before the k-th enabled step, which is untouched,
\* and the pause flag has been cleared
ResumedBefore(k) ==
  /\ state = "paused"
  /\ ~pause_requested
  /\ ~stop_requested
  /\ i = k
  /\ StartsOf(k) = {}

\* The k-th enabled step has been started, once, in state Running, right
\* after execution_resumed, and no later step has been started
StartedAfterResume(k) ==
  /\ state = "running"
  /\ Cardinality(StartsOf(k)) = 1
  /\ \A e \in StartsOf(k) :
       /\ e > 1
       /\ events[e - 1].ev = "execution_resumed"
       /\ events[e].step = sequence.steps[get_enabled_steps(sequence)[k]].step_id
  /\ \A e \in 1..Len(events) : events[e].ev = "step_started" => events[e].n <= k - 1

\* C12: after resume_execution in state Paused, with no stop request, the
\* worker sets the state back to Running, emits execution_resumed before the
\* next step_started, and starts exactly the step it was about to start when
\* it paused.
C12_ResumeContinuesSameStep ==
  \A k \in 1..MaxSteps :
    ResumedBefore(k) ~> (StartedAfterResume(k) \/ stop_requested)

\* The second step was started after a pause and a resume
C12_Witness ==
  /\ StartedAfterResume(2)
  /\ pc = "in_call"
  /\ HasEvent("execution_paused")
  /\ ~stop_requested

\* The worker ended on the stop it saw in the pause wait: execution_stopped
\* directly follows execution_paused and the step it was parked before was
\* never started
StoppedFromPause ==
  /\ pc = "finished"
  /\ Len(events) >= 2
  /\ events[Len(events)].ev = "execution_stopped"
  /\ events[Len(events) - 1].ev = "execution_paused"
  /\ StartsOf(i) = {}
  /\ sequence.steps[enabled_steps[i]].status = "pending"

\* C13: a stop requested while the worker is parked in the pause wait makes
\* it leave the wait without a resume, emit execution_stopped and no
\* execution_resumed, start no further step, and end.
C13_StopEndsPauseWait ==
  (state = "paused" /\ stop_requested /\ pc \in {"pause_wait", "after_wait"})
  ~> StoppedFromPause

\* The run was stopped while parked before its second step, and the pause
\* flag was never cleared
C13_Witness ==
  /\ StoppedFromPause
  /\ pause_requested
  /\ stop_requested
  /\ i = 2
  /\ successful_steps = 1

\* An exception escaped the step loop of the run
LoopRaised == \E k \in 1..Len(attempts) : attempts[k].outcome = "loop_exception"

\* C14: an exception that escapes the step loop is caught, execution_failed
\* is emitted and the state becomes Failed, whatever failed_steps is.
C14_LoopExceptionFails ==
  (pc = "finished" /\ LoopRaised)
    => (LastEvent = "execution_failed" /\ state = "failed")

\* The worker has exited and left the executor in a terminal state
Terminated == WorkerDone /\ state \in {"completed", "failed", "stopped"}

\* C15: every Normal or StepByStep run terminates in a terminal state: if
\* each client call returns or raises and every pause is followed by a
\* resume or a stop, the worker eventually exits, and from then on the state
\* is never Running or Paused.
C15_RunTerminates == ThreadedRun ~> []Terminated

\* A run that was paused and resumed has ended after its last step
C15_Witness ==
  /\ Terminated
  /\ pc = "finished"
  /\ HasEvent("execution_paused")
  /\ HasEvent("execution_resumed")
  /\ LastEvent = "execution_completed"
  /\ i = MaxSteps

TerminalEvents == {"execution_completed", "execution_failed", "execution_stopped"}
StepEvents == {"step_started", "step_completed", "step_failed", "progress_updated"}
\* Where the terminal lifecycle events of the run are in its events
TerminalAt == {e \in 1..Len(events) : events[e].ev \in TerminalEvents}
\* The run that emitted the events is over: the worker left the loop, or
\* the dry run returned
RunOver == pc \in {"finally", "finished", "none"}

\* C16: a run (Normal, StepByStep or DryRun) that emitted execution_started
\* emits exactly one terminal lifecycle event (execution_completed,
\* execution_failed or execution_stopped) and no step or progress event
\* after it.
C16_OneTerminalEvent ==
  HasEvent("execution_started") =>
    /\ Cardinality(TerminalAt) <= 1
    /\ RunOver => Cardinality(TerminalAt) = 1
    /\ \A e \in TerminalAt : \A f \in (e + 1)..Len(events) :
         events[f].ev \notin StepEvents

\* A threaded run was abandoned after the failure of its first step of two
C16_Witness ==
  /\ pc = "finished"
  /\ ThreadedRun
  /\ HasEvent("execution_started")
  /\ HasEvent("progress_updated")
  /\ LastEvent = "execution_failed"
  /\ Cardinality(TerminalAt) = 1
  /\ total_steps = 2
  /\ i = 1

\* How many events named in names were emitted up to and including the e-th
EmittedUpTo(names, e) == Cardinality({f \in 1..e : events[f].ev \in names})
StepResults == {"step_completed", "step_failed"}
\* The id of the k-th enabled step of the sequence
EnabledId(k) == sequence.steps[get_enabled_steps(sequence)[k]].step_id

\* C17: within a run, enabled steps are started strictly in sequence order,
\* each at most once, and the events of step N (step_started, then
\* step_completed or step_failed, then its progress_updated) are all emitted
\* before step_started of step N+1.
C17_StepsInOrder ==
  ThreadedRun =>
    \A e \in 1..Len(events) :
      LET started == EmittedUpTo({"step_started"}, e)
          results == EmittedUpTo(StepResults, e)
      IN /\ events[e].ev = "step_started" =>
              /\ started <= Len(get_enabled_steps(sequence))
              /\ events[e].n = started - 1
              /\ events[e].step = EnabledId(started)
              /\ results = started - 1
         /\ events[e].ev \in StepResults =>
              /\ started >= 1
              /\ results = started
              /\ events[e].step = EnabledId(started)
         /\ events[e].ev = "progress_updated" =>
              /\ started >= 1
              /\ results = started
              /\ events[e].n = started
              /\ events[e - 1].ev \in StepResults

\* The second of two steps with different ids was started after the first
\* was done, with a pause in between
C17_Witness ==
  /\ ThreadedRun
  /\ pc = "in_call"
  /\ i = 2
  /\ EmittedUpTo({"step_started"}, Len(events)) = 2
  /\ HasEvent("progress_updated")
  /\ HasEvent("execution_resumed")
  /\ EnabledId(1) # EnabledId(2)

\* A worker thread is inside _execute_sequence_steps
WorkerActive == pc \notin {"none", "finished"}

\* C18: at most one worker is active per executor: while a worker is active
\* the executor is not Idle, and an execute_sequence call made then starts
\* no second worker and runs no step: the worker, its position, the current
\* sequence and its steps, the events and the client calls are untouched.
C18_AtMostOneWorker ==
  [][/\ WorkerActive => (state # "idle" /\ execution_thread)
     /\ \A m \in ExecutionMode, coe \in BOOLEAN :
          (WorkerActive /\ execute_sequence(m, coe)) =>
            UNCHANGED <<pc, i, execution_thread, state, sequence,
                        current_sequence, events, calls, attempts>>]_vars

\* A start was refused while the worker was parked before the second step
C18_Witness ==
  /\ WorkerActive
  /\ state = "paused"
  /\ pc = "pause_wait"
  /\ i = 2
  /\ last_return = "false"

\* The step taken is the handling of a client result with one of outcomes
Handled(outcomes) ==
  /\ Len(attempts') = Len(attempts) + 1
  /\ attempts'[Len(attempts')].outcome \in outcomes
\* The run goes on after the handled step: to the next enabled step, or to
\* its completion after the last one
GoesOn ==
  IF i < total_steps
    THEN pc' = "check_stop" /\ i' = i + 1
            /\ events'[Len(events')].ev = "progress_updated"
    ELSE pc' = "finally" /\ events'[Len(events')].ev = "execution_completed"

\* C19: a client result with status WARNING makes the step Completed, counts
\* it in successful_steps and not in failed_steps, emits step_completed with
\* success true preceded by a status message with the warning, and does not
\* abort the run even when continue_on_error is false.
C19_WarningIsSuccess ==
  [][Handled({"warning"}) =>
       LET pos == attempts'[Len(attempts')].pos IN
       /\ pos = enabled_steps[i]
       /\ sequence'.steps[pos].status = "completed"
       /\ successful_steps' = successful_steps + 1
       /\ failed_steps' = failed_steps
       /\ SubSeq(events', Len(events) + 1, Len(events) + 2)
            = <<Ev("status_message", 0, 0, TRUE),
                Ev("step_completed", sequence.steps[pos].step_id, 0, TRUE)>>
       /\ \A e \in (Len(events) + 1)..Len(events') :
            events'[e].ev \notin {"step_failed", "execution_failed"}
       /\ GoesOn]_vars

\* The first of two steps ended with a warning in a run that stops at the
\* first failure, and the run went on to the second
C19_Witness ==
  /\ ThreadedRun
  /\ ~continue_on_error
  /\ attempts # <<>>
  /\ attempts[Len(attempts)].outcome = "warning"
  /\ successful_steps = 1
  /\ failed_steps = 0
  /\ pc = "check_stop"
  /\ i = 2

\* The outcomes of a client call that make the step fail
FailingOutcomes == {"failure", "timeout", "no_result", "raise"}

\* C20: a client call that returns FAILURE, TIMEOUT or no result, or that
\* raises, makes the step Failed with error_message set, increments
\* failed_steps by exactly one and emits exactly one step_failed; the
\* exception stays inside the step, and the worker then abandons the run or
\* goes on according to continue_on_error.
C20_ClientFailureFailsStep ==
  [][Handled(FailingOutcomes) =>
       LET pos == attempts'[Len(attempts')].pos
           new == (Len(events) + 1)..Len(events')
       IN
       /\ pos = enabled_steps[i]
       /\ sequence'.steps[pos].status = "failed"
       /\ sequence'.steps[pos].error_message # NoMessage
       /\ failed_steps' = failed_steps + 1
       /\ successful_steps' = successful_steps
       /\ Cardinality({e \in new : events'[e].ev = "step_failed"}) = 1
       /\ \A e \in new : events'[e].ev = "step_failed" =>
            events'[e].step = sequence.steps[pos].step_id
       /\ \A e \in new : events'[e].ev # "step_completed"
       /\ state' = state
       /\ IF continue_on_error
            THEN GoesOn
            ELSE pc' = "finally" /\ i' = i
                   /\ events'[Len(events')].ev = "execution_failed"]_vars

\* The client call of the first of two steps raised in a run that goes on
\* after failures, and the run went on to the second
C20_Witness ==
  /\ ThreadedRun
  /\ continue_on_error
  /\ attempts # <<>>
  /\ attempts[Len(attempts)].outcome = "raise"
  /\ failed_steps = 1
  /\ pc = "check_stop"
  /\ i = 2

\* The step the worker is about to execute fails _validate_step with errors
InvalidAtExecution ==
  /\ pc = "execute"
  /\ pc' # "execute"
  /\ LET res == _validate_step(sequence.steps[enabled_steps[i]])
     IN ~res.raised /\ res.errors # <<>>

\* C21: an enabled step that fails validation when it is reached is marked
\* Failed, gets a step_failed event, is counted in failed_steps and is never
\* handed to the client; the run is then abandoned if continue_on_error is
\* false and goes on with the next enabled step otherwise.
C21_InvalidStepFailsWithoutDispatch ==
  [][InvalidAtExecution =>
       LET pos  == enabled_steps[i]
           id   == sequence.steps[pos].step_id
           last == events'[Len(events')].ev
       IN
       /\ sequence'.steps[pos].status = "failed"
       /\ sequence'.steps[pos].error_message # NoMessage
       /\ failed_steps' = failed_steps + 1
       /\ successful_steps' = successful_steps
       /\ calls' = calls
       /\ SubSeq(events', Len(events) + 1, Len(events) + 2)
            = <<Ev("step_started", id, i - 1, TRUE), Ev("step_failed", id, 0, FALSE)>>
       /\ IF ~continue_on_error
            THEN pc' = "finally" /\ i' = i /\ last = "execution_failed"
          ELSE IF i < total_steps
            THEN pc' = "check_stop" /\ i' = i + 1 /\ last = "step_failed"
          ELSE pc' = "finally" /\ last = "execution_completed"]_vars

\* The first of two steps failed its validation in a run that goes on after
\* failures; nothing was handed to the client and the run went on
C21_Witness ==
  /\ ThreadedRun
  /\ continue_on_error
  /\ attempts # <<>>
  /\ attempts[Len(attempts)].outcome = "invalid"
  /\ failed_steps = 1
  /\ calls = <<>>
  /\ pc = "check_stop"
  /\ i = 2

\* C22: during a run a disabled step is never processed: its status stays
\* Pending, no step_started, step_completed or step_failed is emitted for
\* it, no client call is made for it, and it is counted in none of
\* total_steps_executed, successful_steps and failed_steps.
C22_DisabledStepUntouched ==
  current_sequence = "sequence" =>
    /\ \A p \in Positions \ EnabledPositions :
         /\ sequence.steps[p].status = "pending"
         /\ \A c \in 1..Len(calls) : calls[c].pos # p
         /\ \A a \in 1..Len(attempts) : attempts[a].pos # p
    /\ \A e \in 1..Len(events) :
         events[e].ev \in {"step_started", "step_completed", "step_failed"} =>
           \E q \in EnabledPositions : sequence.steps[q].step_id = events[e].step
    /\ successful_steps + failed_steps = Len(attempts)
    /\ total_steps_executed <= Len(attempts)

\* A run over a disabled step followed by an enabled one has ended: only the
\* second was executed
C22_Witness ==
  /\ ThreadedRun
  /\ pc = "finished"
  /\ Len(sequence.steps) = 2
  /\ ~sequence.steps[1].enabled
  /\ sequence.steps[2].enabled
  /\ sequence.steps[1].step_id # sequence.steps[2].step_id
  /\ sequence.steps[1].status = "pending"
  /\ sequence.steps[2].status = "completed"
  /\ total_steps_executed = 1

\* The sequence has steps that fail SequenceStep.validate, all of them
\* disabled, and nothing else is wrong with it
OnlyDisabledInvalid(seq) ==
  /\ Strip(seq.name) # ""
  /\ \A k, l \in 1..Len(seq.steps) : k # l => seq.steps[k].step_id # seq.steps[l].step_id
  /\ \E k \in 1..Len(seq.steps) : StepValidate(seq.steps[k]) # <<>>
  /\ \A k \in 1..Len(seq.steps) :
       StepValidate(seq.steps[k]) # <<>> => ~seq.steps[k].enabled

\* C23: a disabled step is not validated during a run: a sequence whose only
\* invalid steps are disabled is started by execute_sequence and its enabled
\* steps are executed.
C23_DisabledInvalidStillStarts ==
  [][\A m \in ExecutionMode \ {"dry_run"}, coe \in BOOLEAN :
       (state = "idle" /\ OnlyDisabledInvalid(sequence) /\ execute_sequence(m, coe))
         => (last_return' = "true" /\ state' = "running" /\ pc' = "start")]_vars

\* The parameter key an error message of SequenceStep.validate names
KeyNamedBy(msg) ==
  CASE msg = "SetParameter step requires 'name' parameter" -> "name"
    [] msg = "SetParameter step requires 'value' parameter" -> "value"
    [] msg = "WaitForEvent step requires 'event_name' parameter" -> "event_name"
    [] msg = "WaitForEvent step requires 'timeout' parameter" -> "timeout"
    [] msg = "Delay step requires 'duration' parameter" -> "duration"
    [] msg = "RunDiagnostic step requires 'diagnostic_name' parameter" -> "diagnostic_name"
    [] msg = "LogMessage step requires 'message' parameter" -> "message"
    [] OTHER -> "none"
\* The keys a step of the type must have
RequiredKeys(type) == DOMAIN FullParameters(type)

\* C24: for every step type and every parameter key the type requires,
\* step.validate() on a step whose parameters lack the key returns
\* is_valid false with an error that names the missing key.
C24_MissingKeyIsNamed ==
  \A h \in 1..Len(validation) :
    validation[h].call = "step" =>
      LET step == sequence.steps[validation[h].pos] IN
      \A key \in RequiredKeys(step.step_type) \ DOMAIN step.parameters :
        /\ ~validation[h].ok
        /\ \E e \in 1..Len(validation[h].errors) :
             KeyNamedBy(validation[h].errors[e]) = key

\* A WaitForEvent step without parameters was validated: two errors
C24_Witness ==
  /\ Len(validation) = 1
  /\ validation[1].call = "step"
  /\ sequence.steps[1].step_type = "WaitForEvent"
  /\ DOMAIN sequence.steps[1].parameters = {}
  /\ ~validation[1].ok
  /\ Len(validation[1].errors) = 2

AllEnabledValid(seq) ==
  \A k \in 1..Len(get_enabled_steps(seq)) :
    LET res == _validate_step(seq.steps[get_enabled_steps(seq)[k]])
    IN ~res.raised /\ res.errors = <<>>

\* C26: a DryRun execute_sequence call returns true if and only if
\* validation passed for every enabled step; it returns false whenever an
\* enabled step failed validation, for either value of continue_on_error.
C26_DryRunReturnsValidity ==
  [][\A coe \in BOOLEAN :
       (state = "idle" /\ SequenceValidate(sequence) = <<>>
          /\ execute_sequence("dry_run", coe))
         => (last_return' = "true" <=> AllEnabledValid(sequence))]_vars

\* A call of one of the four control operations of the caller
ControlCall ==
  \/ pause_execution
  \/ resume_execution
  \/ stop_execution
  \/ \E m \in ExecutionMode, coe \in BOOLEAN : execute_sequence(m, coe)

\* C27: Completed, Failed and Stopped are absorbing for the control
\* operations: in a terminal state no pause_execution, resume_execution,
\* stop_execution or execute_sequence call changes the state, sets a pause
\* or stop flag, or starts a worker.
C27_TerminalAbsorbsControl ==
  [][(state \in {"completed", "failed", "stopped"} /\ ControlCall) =>
       UNCHANGED <<state, pause_requested, stop_requested, pc, i,
                   execution_thread, sequence, events, calls>>]_vars

\* The run has failed, its thread object is released, and a start was
\* refused; no flag is set
C27_Witness ==
  /\ state = "failed"
  /\ pc = "none"
  /\ ~execution_thread
  /\ last_return = "false"
  /\ ~stop_requested
  /\ ~pause_requested

\* C28: for every enabled step that is attempted, whatever its outcome,
\* total_steps_executed is incremented by one and exactly one
\* progress_updated is emitted after its step_completed or step_failed;
\* hence total_steps_executed = successful_steps + failed_steps at every
\* step boundary.
C28_EveryAttemptCounted ==
  [][Len(attempts') = Len(attempts) + 1 =>
       LET new == (Len(events) + 1)..Len(events') IN
       /\ total_steps_executed' = total_steps_executed + 1
       /\ Cardinality({e \in new : events'[e].ev = "progress_updated"}) = 1
       /\ \A e \in new : events'[e].ev = "progress_updated" =>
            (e > 1 /\ events'[e - 1].ev \in StepResults)
       /\ total_steps_executed' = successful_steps' + failed_steps']_vars

\* C29: a control operation called in a state where it is not effective
\* leaves everything unchanged: pause_execution when the state is not
\* Running, resume_execution when it is not Paused, stop_execution when it
\* is neither; and none of the three ever writes the state field.
C29_IneffectiveControlIsNoOp ==
  [][/\ (pause_execution /\ state # "running") => UNCHANGED vars
     /\ (resume_execution /\ state # "paused") => UNCHANGED vars
     /\ (stop_execution /\ state \notin {"running", "paused"}) => UNCHANGED vars
     /\ (pause_execution \/ resume_execution \/ stop_execution) => state' = state]_vars

\* A pause is pending while the second step is with the client and the
\* state is Running: a resume_execution call made now has no effect
C29_Witness ==
  /\ state = "running"
  /\ pause_requested
  /\ ~stop_requested
  /\ pc = "in_call"
  /\ i = 2

\* The positions of the steps that were started in the run
StartedPositions ==
  {get_enabled_steps(sequence)[events[e].n + 1] :
     e \in {f \in 1..Len(events) : events[f].ev = "step_started"}}

\* C30: a step in flight is never interrupted or given up: the stop and
\* pause flags are read only before a step starts and in the pause wait, so
\* while a step is with the client the executor stays Running and the step
\* Running, every started step is Completed or Failed when the terminal
\* event of the run is emitted, and after the run no step is Running.
C30_InFlightStepFinishes ==
  ThreadedRun =>
    /\ pc = "in_call" =>
         /\ state = "running"
         /\ sequence.steps[enabled_steps[i]].status = "running"
         /\ TerminalAt = {}
    /\ (TerminalAt # {} \/ RunOver) =>
         /\ \A p \in StartedPositions : sequence.steps[p].status \in {"completed", "failed"}
         /\ \A p \in Positions : sequence.steps[p].status # "running"

\* Pause and stop were requested while the last step was with the client;
\* the step completed and the run ended as completed
C30_Witness ==
  /\ ThreadedRun
  /\ pc = "finished"
  /\ stop_requested
  /\ pause_requested
  /\ LastEvent = "execution_completed"
  /\ i = 2
  /\ sequence.steps[enabled_steps[2]].status = "completed"
  /\ ~HasEvent("execution_paused")

\* C31: at every point of a run and after it a step has an error message
\* only if its status is Failed, and a run starts with the error message of
\* every step cleared, before its first step is processed.
C31_ErrorMessageOnlyWhenFailed ==
  current_sequence = "sequence" =>
    /\ \A p \in Positions :
         sequence.steps[p].error_message # NoMessage => sequence.steps[p].status = "failed"
    /\ (ThreadedRun /\ pc = "start") =>
         \A p \in Positions : sequence.steps[p].error_message = NoMessage

\* A run of two steps has ended: the first completed and has no message,
\* the second failed and has one
C31_Witness ==
  /\ ThreadedRun
  /\ pc = "finished"
  /\ Len(sequence.steps) = 2
  /\ sequence.steps[1].status = "completed"
  /\ sequence.steps[1].error_message = NoMessage
  /\ sequence.steps[2].status = "failed"
  /\ sequence.steps[2].error_message # NoMessage

\* A WaitForEvent step with an event name, no timeout parameter and no
\* step-level timeout
OnlyEventName(step) ==
  /\ step.step_type = "WaitForEvent"
  /\ DOMAIN step.parameters = {"event_name"}
  /\ step.timeout = NoneV
\* Nothing is wrong with the sequence, if such steps are valid
ValidWithEventNameOnly(seq) ==
  /\ Strip(seq.name) # ""
  /\ \A k, l \in 1..Len(seq.steps) : k # l => seq.steps[k].step_id # seq.steps[l].step_id
  /\ \E k \in 1..Len(seq.steps) : OnlyEventName(seq.steps[k])
  /\ \A k \in 1..Len(seq.steps) :
       OnlyEventName(seq.steps[k]) \/ StepValidate(seq.steps[k]) = <<>>

\* C32: for a WaitForEvent step only event_name is required: a step with
\* event_name and no timeout passes validation, is accepted by
\* execute_sequence, and is dispatched to wait_for_event with timeout 30.0.
C32_WaitForEventNeedsOnlyName ==
  [][/\ \A m \in ExecutionMode \ {"dry_run"}, coe \in BOOLEAN :
          (state = "idle" /\ ValidWithEventNameOnly(sequence) /\ execute_sequence(m, coe))
            => /\ \A k \in 1..Len(sequence.steps) :
                    OnlyEventName(sequence.steps[k]) => StepValidate(sequence.steps[k]) = <<>>
               /\ last_return' = "true"
               /\ pc' = "start"
     /\ (pc = "execute" /\ pc' = "in_call"
           /\ OnlyEventName(sequence.steps[enabled_steps[i]]))
          => calls'[Len(calls')].timeout = Num(30)]_vars

\* C33: if stop_execution is called while a run is Running or Paused, the
\* terminal lifecycle event of the run is execution_stopped, at whatever
\* point of the run the call is made: whenever the terminal event is
\* emitted with the stop flag set, it is execution_stopped.
C33_StopEndsAsStopped ==
  [][(ThreadedRun /\ stop_requested /\ TerminalAt = {} /\ TerminalAt' # {})
       => events'[Len(events')].ev = "execution_stopped"]_vars

\* C34: when a run ends with execution_completed, its success flag is true
\* exactly when failed_steps is 0, so it agrees with the final state of the
\* executor.
C34_CompletedFlagAgrees ==
  (ThreadedRun /\ pc = "finished" /\ LastEvent = "execution_completed") =>
    /\ events[Len(events)].ok <=> (failed_steps = 0)
    /\ events[Len(events)].ok <=> (state = "completed")

\* C35: after a Normal or StepByStep run has terminated every later
\* execute_sequence call returns false: nothing moves the state from
\* Completed or Failed back to Idle, so an executor performs at most one
\* threaded run.
C35_OneThreadedRun ==
  [][ThreadedRun =>
       /\ state' # "idle"
       /\ ~(pc # "start" /\ pc' = "start")
       /\ WorkerDone =>
            /\ state \in {"completed", "failed"}
            /\ state' = state
            /\ \A m \in ExecutionMode, coe \in BOOLEAN :
                 execute_sequence(m, coe) =>
                   (last_return' = "false" /\ UNCHANGED <<pc, sequence, events>>)]_vars

\* The run of two steps has completed, its thread object is released, and a
\* start was refused
C35_Witness ==
  /\ ThreadedRun
  /\ state = "completed"
  /\ pc = "none"
  /\ ~execution_thread
  /\ successful_steps = 2
  /\ last_return = "false"

\* C36: after a DryRun execute_sequence call returns, true or false and
\* whether or not an exception occurred in it, the state is Idle, no worker
\* exists, and a following execute_sequence call is accepted.
C36_DryRunReturnsToIdle ==
  [][\A coe \in BOOLEAN :
       (state = "idle" /\ SequenceValidate(sequence) = <<>>
          /\ execute_sequence("dry_run", coe))
         => /\ state' = "idle"
            /\ pc' = "none"
            /\ ~execution_thread'
            /\ last_return' \in {"true", "false"}
            /\ events'[1].ev = "execution_started"]_vars

\* A dry run in which a validator raised has returned false and the
\* executor is idle
C36_Witness ==
  /\ state = "idle"
  /\ mode = "dry_run"
  /\ current_sequence = "sequence"
  /\ pc = "none"
  /\ last_return = "false"
  /\ HasEvent("execution_started")
  /\ LastEvent = "execution_failed"
  /\ ~HasEvent("step_failed")

\* How many steps of the sequence have the status
WithStatus(status) ==
  Cardinality({p \in Positions : sequence.steps[p].status = status})

\* C37: at every step boundary of a Normal or StepByStep run and at its
\* end, successful_steps is the number of steps with status Completed,
\* failed_steps the number of steps with status Failed, and their sum never
\* exceeds the number of enabled steps.
C37_CountersMatchStatuses ==
  ThreadedRun =>
    /\ successful_steps = WithStatus("completed")
    /\ failed_steps = WithStatus("failed")
    /\ successful_steps + failed_steps <= Cardinality(EnabledPositions)

\* The run has ended after one step completed and one failed
C37_Witness ==
  /\ ThreadedRun
  /\ pc = "finished"
  /\ successful_steps = 1
  /\ failed_steps = 1
  /\ WithStatus("completed") = 1
  /\ WithStatus("failed") = 1

\* C38: if the validation of the whole sequence at the start of
\* execute_sequence accepts the sequence, no enabled step fails the
\* validation of the step made at execution time or in the dry run: no
\* step fails for validation in an accepted sequence.
C38_AcceptedSequenceHasValidSteps ==
  current_sequence = "sequence" =>
    /\ \A a \in 1..Len(attempts) : attempts[a].outcome \notin {"invalid", "validator_raised"}
    /\ mode = "dry_run" =>
         (~HasEvent("step_failed") /\ LastEvent # "execution_failed")

\* C39: when a terminal lifecycle event of a Normal or StepByStep run is
\* emitted the state has already left Running and Paused, so an observer of
\* the event sees a terminal state.
C39_TerminalEventInTerminalState ==
  (ThreadedRun /\ TerminalAt # {}) => state \notin {"running", "paused"}

\* C40: every terminal lifecycle event is preceded by the execution_started
\* of the same execute_sequence call; no execution_failed is emitted for a
\* call that emitted no execution_started.
C40_TerminalEventAfterStarted ==
  \A e \in TerminalAt :
    \E f \in 1..(e - 1) : events[f].ev = "execution_started"

====
